---- MODULE Spec2Model ----
(***************************************************************************)
(* PDF-checkmaker (src/main.py): an interactive script that loads invoice  *)
(* rows from a CSV or JSON file, groups them by invoice_id, fills an HTML  *)
(* template per selected record and renders each to a PDF.                 *)
(*                                                                         *)
(* Texts are TLA+ strings (Len, SubSeq, Head, Tail and \o work on them).   *)
(* A Python value is a record [t, v]: t is the Python type, v the text     *)
(* that carries the value (the characters of a str, the decimal digits of  *)
(* an int).  A dict is a record over its possible keys in which a missing  *)
(* key holds Absent.                                                       *)
(***************************************************************************)
EXTENDS Integers, Sequences, FiniteSets, TLC

VARIABLES
    pc,               \* position of the function or run under check
    file_path,        \* load_data: the data file
    loaded,           \* load_data: its outcome
    records,          \* select_records / main: the loaded record list
    accepted,         \* select_records: the typed line it returned on
    discarded,        \* select_records: valid_indices of the refused lines
    selected_records, \* select_records / main: the selection made
    template_content, \* generate_html / main: the template text
    record,           \* generate_html: the record being rendered
    html,             \* generate_html: its outcome
    env,              \* main: the files on disk (data files, templates)
    template_name,    \* main: stem of the chosen template
    loop_i,           \* main: index of the export loop in selected_records
    outcome,          \* main: per selected record, what happened to it
    temp_files,       \* main: transient HTML paths written, in order
    generated_files,  \* main: PDF paths written, in order
    trace             \* main: the steps of the run, in order

vars == <<pc, file_path, loaded, records, accepted, discarded, selected_records,
          template_content, record, html, env, template_name, loop_i, outcome,
          temp_files, generated_files, trace>>

(***************************************************************************)
(* Bounds of the model.                                                    *)
(***************************************************************************)
MaxRows == 3      \* rows of a CSV file, objects of a JSON document
MaxTokens == 3    \* comma-separated tokens of a typed selection
MaxRecords == 3   \* records offered to select_records
MaxItems == 2     \* elements of a nested items array rendered by generate_html
MaxParts == 2     \* pieces a template is put together from

(***************************************************************************)
(* Python values.                                                          *)
(***************************************************************************)
None == [t |-> "NoneType", v |-> ""]
Absent == [t |-> "absent", v |-> ""]
PyStr(s) == [t |-> "str", v |-> s]
PyInt(s) == [t |-> "int", v |-> s]
ListValue == [t |-> "list", v |-> ""]

\* d.get(k, default) and d.get(k)
Get(d, k, default) == IF d[k] = Absent THEN default ELSE d[k]

\* hash(x) raises TypeError for a list (a dict key must be hashable)
Hashable(x) == x.t # "list"

Keys == {"invoice_id", "customer_name", "date", "item_name", "quantity",
         "price", "amount"}

(***************************************************************************)
(* Data files.  A file is what open() and the reader make of it:           *)
(*   suffix    file_path.suffix                                            *)
(*   open_exc  the exception open() raises, "" when it opens               *)
(*   read_exc  the exception reading raises: for JSON inside json.load,    *)
(*             for CSV when the reader is asked for row read_at            *)
(*   header, raw   CSV: the header's field names and the rows' fields      *)
(*   data_t, data  JSON: the type of the parsed document and what          *)
(*             iterating it yields                                         *)
(***************************************************************************)
NoItems == [t |-> "absent", elems |-> <<>>]

\* a line item as a dict, or (t # "dict") a non-dict element of a nested array
Item(name, amount) ==
    [t |-> "dict", item_name |-> name, quantity |-> Absent, price |-> Absent,
     amount |-> amount]
NonDictItem ==
    [t |-> "str", item_name |-> Absent, quantity |-> Absent, price |-> Absent,
     amount |-> Absent]

\* one element of a parsed JSON document
JsonObject(id, customer, name, amount, items) ==
    [t |-> "dict", invoice_id |-> id, customer_name |-> customer, date |-> Absent,
     item_name |-> name, quantity |-> Absent, price |-> Absent, amount |-> amount,
     items |-> items]
JsonScalar(type) ==
    [t |-> type, invoice_id |-> Absent, customer_name |-> Absent, date |-> Absent,
     item_name |-> Absent, quantity |-> Absent, price |-> Absent, amount |-> Absent,
     items |-> NoItems]

CsvFile(header, raw) ==
    [suffix |-> ".csv", open_exc |-> "", read_exc |-> "", read_at |-> 0,
     header |-> header, raw |-> raw, data_t |-> "", data |-> <<>>]
JsonFile(data_t, data) ==
    [suffix |-> ".json", open_exc |-> "", read_exc |-> "", read_at |-> 0,
     header |-> <<>>, raw |-> <<>>, data_t |-> data_t, data |-> data]

SeqsUpTo(S, n) == UNION {[1..k -> S] : k \in 0..n}

(***************************************************************************)
(* load_data                                                               *)
(***************************************************************************)
\* csv.DictReader: a row as a dict over the header's field names; a row
\* shorter than the header gets None (restval) for the fields it lacks
DictReader(fieldnames, row) ==
    [k \in Keys |->
        IF \E i \in 1..Len(fieldnames) : fieldnames[i] = k
        THEN LET i == CHOOSE j \in 1..Len(fieldnames) : fieldnames[j] = k
             IN  IF i <= Len(row) THEN PyStr(row[i]) ELSE None
        ELSE Absent]

\* position of invoice_id among the keys of the invoices dict, 0 when not in it
IndexOf(invoices, invoice_id) ==
    IF \E i \in 1..Len(invoices) : invoices[i].invoice_id = invoice_id
    THEN CHOOSE i \in 1..Len(invoices) : invoices[i].invoice_id = invoice_id
    ELSE 0

NewInvoice(invoice_id, row) ==
    [invoice_id |-> invoice_id,
     customer_name |-> Get(row, "customer_name", None),
     date |-> Get(row, "date", None),
     items |-> <<>>]

CsvItem(row) ==
    [t |-> "dict",
     item_name |-> Get(row, "item_name", None),
     quantity |-> Get(row, "quantity", PyInt("1")),
     price |-> Get(row, "price", PyInt("0")),
     amount |-> Get(row, "amount", PyInt("0"))]

JsonItem(rec) ==
    [t |-> "dict",
     item_name |-> Get(rec, "item_name", None),
     quantity |-> Get(rec, "quantity", PyInt("1")),
     price |-> Get(rec, "price", PyInt("0")),
     amount |-> Get(rec, "amount", PyInt("0"))]

\* if invoice_id not in invoices: invoices[invoice_id] = {...}
WithInvoice(invoices, invoice_id, row) ==
    IF IndexOf(invoices, invoice_id) = 0
    THEN Append(invoices, NewInvoice(invoice_id, row))
    ELSE invoices

\* AddItems putting the new items in front of those already there
AddItemsInFront(invoices, invoice_id, new_items) ==
    [invoices EXCEPT ![IndexOf(invoices, invoice_id)].items = new_items \o @]

\* invoices[invoice_id]["items"] += new_items
AddItems(invoices, invoice_id, new_items) ==
    [invoices EXCEPT ![IndexOf(invoices, invoice_id)].items = @ \o new_items]

\* the body of the CSV loop for one row
CsvRowStep(invoices, row) ==
    IF row["invoice_id"] = Absent
    THEN [exc |-> "KeyError", invoices |-> invoices]
    ELSE LET invoice_id == row["invoice_id"]
         IN  [exc |-> "",
              invoices |-> AddItems(WithInvoice(invoices, invoice_id, row),
                                    invoice_id, <<CsvItem(row)>>)]

\* 'items' in record and isinstance(record['items'], list)
HasNestedItems(rec) == rec.items.t = "list"

\* JsonContribution adding the top-level item fields to a nested array too
JsonContributionBoth(rec) ==
    IF HasNestedItems(rec) THEN rec.items.elems \o <<JsonItem(rec)>>
    ELSE <<JsonItem(rec)>>

\* what invoices[invoice_id]['items'] is extended with, or appended
JsonContribution(rec) ==
    IF HasNestedItems(rec) THEN rec.items.elems ELSE <<JsonItem(rec)>>

\* the body of the JSON loop for one element of the document
JsonRecordStep(invoices, rec) ==
    IF rec.t # "dict"
    THEN [exc |-> "TypeError", invoices |-> invoices]
    ELSE IF rec.invoice_id = Absent
    THEN [exc |-> "KeyError", invoices |-> invoices]
    ELSE IF ~Hashable(rec.invoice_id)
    THEN [exc |-> "TypeError", invoices |-> invoices]
    ELSE [exc |-> "",
          invoices |-> AddItems(WithInvoice(invoices, rec.invoice_id, rec),
                                rec.invoice_id, JsonContribution(rec))]

RECURSIVE CsvLoop(_, _, _)
CsvLoop(file, i, invoices) ==
    IF file.read_exc # "" /\ file.read_at = i
    THEN [exc |-> file.read_exc, invoices |-> invoices]
    ELSE IF i > Len(file.raw)
    THEN [exc |-> "", invoices |-> invoices]
    ELSE IF file.raw[i] = <<>>
    THEN CsvLoop(file, i + 1, invoices)
    ELSE LET r == CsvRowStep(invoices, DictReader(file.header, file.raw[i]))
         IN  IF r.exc # "" THEN r ELSE CsvLoop(file, i + 1, r.invoices)

RECURSIVE JsonLoop(_, _, _)
JsonLoop(data, i, invoices) ==
    IF i > Len(data)
    THEN [exc |-> "", invoices |-> invoices]
    ELSE LET r == JsonRecordStep(invoices, data[i])
         IN  IF r.exc # "" THEN r ELSE JsonLoop(data, i + 1, r.invoices)

\* iter(data) raises TypeError unless the document is a list, a dict or a str
Iterable(data_t) == data_t \in {"list", "dict", "str"}

\* except (IOError, json.JSONDecodeError, csv.Error, KeyError)
LoadCaught == {"OSError", "JSONDecodeError", "csv.Error", "KeyError"}

\* the try block of load_data
LoadBody(file) ==
    IF file.open_exc # ""
    THEN [exc |-> file.open_exc, invoices |-> <<>>]
    ELSE IF file.suffix = ".csv"
    THEN CsvLoop(file, 1, <<>>)
    ELSE IF file.read_exc # ""
    THEN [exc |-> file.read_exc, invoices |-> <<>>]
    ELSE IF ~Iterable(file.data_t)
    THEN [exc |-> "TypeError", invoices |-> <<>>]
    ELSE JsonLoop(file.data, 1, <<>>)

\* what the except clause returns for a caught exception
OnLoadError(invoices) == <<>>

\* load_data(file_path): exc is the exception the try block ended with, raised
\* the one that left load_data, value_t and value what was returned
LoadData(file) ==
    LET r == LoadBody(file)
    IN  IF r.exc = ""
        THEN [exc |-> "", raised |-> "", reported |-> FALSE,
              value_t |-> "list", value |-> r.invoices]
        ELSE IF r.exc \in LoadCaught
        THEN [exc |-> r.exc, raised |-> "", reported |-> TRUE,
              value_t |-> "NoneType", value |-> OnLoadError(r.invoices)]
        ELSE [exc |-> r.exc, raised |-> r.exc, reported |-> FALSE,
              value_t |-> "", value |-> <<>>]

NotLoaded ==
    [exc |-> "", raised |-> "", reported |-> FALSE, value_t |-> "", value |-> <<>>]

(***************************************************************************)
(* Python text operations.                                                 *)
(***************************************************************************)
Char(s, i) == SubSeq(s, i, i)

RECURSIVE LStrip(_)
LStrip(s) == IF s # "" /\ Head(s) = " " THEN LStrip(Tail(s)) ELSE s

RECURSIVE RStrip(_)
RStrip(s) ==
    IF s # "" /\ Char(s, Len(s)) = " " THEN RStrip(SubSeq(s, 1, Len(s) - 1)) ELSE s

\* str.strip()
Strip(s) == RStrip(LStrip(s))

UpperCase == "ALX"
LowerCase == "alx"
LowerChar(c) ==
    IF \E i \in 1..Len(UpperCase) : Char(UpperCase, i) = c
    THEN Char(LowerCase, CHOOSE i \in 1..Len(UpperCase) : Char(UpperCase, i) = c)
    ELSE c

\* str.lower()
RECURSIVE Lower(_)
Lower(s) == IF s = "" THEN "" ELSE LowerChar(Head(s)) \o Lower(Tail(s))

\* s.startswith(prefix)
StartsWith(s, prefix) ==
    Len(prefix) <= Len(s) /\ SubSeq(s, 1, Len(prefix)) = prefix

\* str.split(sep) for a one-character sep
RECURSIVE Split(_, _)
Split(s, sep) ==
    IF \E i \in 1..Len(s) : Char(s, i) = sep
    THEN LET i == CHOOSE j \in 1..Len(s) :
                      Char(s, j) = sep /\ \A k \in 1..(j - 1) : Char(s, k) # sep
         IN  <<SubSeq(s, 1, i - 1)>> \o Split(SubSeq(s, i + 1, Len(s)), sep)
    ELSE <<s>>

\* s.find(sub) + 1: where sub first occurs in s, 0 when it does not
Find(s, sub) ==
    LET at == {i \in 1..(Len(s) - Len(sub) + 1) : SubSeq(s, i, i + Len(sub) - 1) = sub}
    IN  IF at = {} THEN 0 ELSE CHOOSE i \in at : \A j \in at : i <= j

\* str.replace(old, new): every non-overlapping occurrence, left to right
RECURSIVE Replace(_, _, _)
Replace(s, old, new) ==
    IF Find(s, old) = 0 THEN s
    ELSE SubSeq(s, 1, Find(s, old) - 1) \o new
         \o Replace(SubSeq(s, Find(s, old) + Len(old), Len(s)), old, new)

Digits == "0123456789"
IsDigit(c) == \E d \in 1..Len(Digits) : Char(Digits, d) = c
DigitValue(c) == (CHOOSE d \in 1..Len(Digits) : Char(Digits, d) = c) - 1
AllDigits(s) == s # "" /\ \A i \in 1..Len(s) : IsDigit(Char(s, i))

RECURSIVE DigitsValue(_)
DigitsValue(s) ==
    IF s = "" THEN 0
    ELSE 10 * DigitsValue(SubSeq(s, 1, Len(s) - 1)) + DigitValue(Char(s, Len(s)))

\* int(s): surrounding blanks and one sign are accepted; ok = FALSE is ValueError
ParseInt(s) ==
    LET body == Strip(s)
        signed == body # "" /\ Head(body) \in {"+", "-"}
        digits == IF signed THEN Tail(body) ELSE body
    IN  IF AllDigits(digits)
        THEN [ok |-> TRUE,
              val |-> IF signed /\ Head(body) = "-" THEN 0 - DigitsValue(digits)
                      ELSE DigitsValue(digits)]
        ELSE [ok |-> FALSE, val |-> 0]

(***************************************************************************)
(* select_records                                                          *)
(***************************************************************************)
\* 0 <= index < len(records)
InRange(index, n) == 0 <= index /\ index < n

\* sorted(list(set(indices)))
RECURSIVE Sorted(_)
Sorted(S) ==
    IF S = {} THEN <<>>
    ELSE LET m == CHOOSE x \in S : \A y \in S : x <= y
         IN  <<m>> \o Sorted(S \ {m})

SeqRange(q) == {q[i] : i \in 1..Len(q)}

\* SortedDistinct without the sort: first occurrences, in typed order
RECURSIVE DistinctInTypedOrder(_)
DistinctInTypedOrder(indices) ==
    IF indices = <<>> THEN <<>>
    ELSE LET front == DistinctInTypedOrder(SubSeq(indices, 1, Len(indices) - 1))
             last == indices[Len(indices)]
         IN  IF last \in SeqRange(front) THEN front ELSE Append(front, last)

SortedDistinct(indices) == Sorted(SeqRange(indices))

\* one pass of the while loop on one typed line: returns tells whether the
\* function returned, value what it returned, valid the valid_indices the pass
\* had collected when it went back to the prompt
SelectPass(recs, line) ==
    LET typed == Lower(Strip(line))
        again == [returns |-> FALSE, value |-> <<>>, valid |-> {}]
    IN  IF typed = "all" THEN [returns |-> TRUE, value |-> recs, valid |-> {}]
        ELSE IF typed = "" THEN again
        ELSE LET parts == Split(typed, ",")
                 parsed == [i \in 1..Len(parts) |-> ParseInt(Strip(parts[i]))]
             IN  IF \E i \in 1..Len(parts) : ~parsed[i].ok THEN again
                 ELSE LET selected_indices ==
                              [i \in 1..Len(parts) |-> parsed[i].val - 1]
                          valid_indices ==
                              SelectSeq(selected_indices,
                                        LAMBDA x : InRange(x, Len(recs)))
                          invalid_numbers ==
                              SelectSeq(selected_indices,
                                        LAMBDA x : ~InRange(x, Len(recs)))
                          order == SortedDistinct(valid_indices)
                          picked == [k \in 1..Len(order) |-> recs[order[k] + 1]]
                      IN  IF invalid_numbers # <<>>
                          THEN [again EXCEPT !.valid = SeqRange(valid_indices)]
                          ELSE IF picked # <<>>
                          THEN [returns |-> TRUE, value |-> picked, valid |-> {}]
                          ELSE again

(***************************************************************************)
(* generate_html                                                           *)
(***************************************************************************)
\* str(x), and x formatted in an f-string
StrOf(x) ==
    CASE x.t = "NoneType" -> "None"
      [] x.t = "list" -> "[]"
      [] OTHER -> x.v

\* an int of more decimal digits than this is beyond the largest float
FloatMaxDigits == 309

\* digits, optionally followed by a point and one or two more digits: the
\* value in hundredths (the numeric texts of the inputs have this form)
DecimalValue(s) ==
    LET parts == Split(s, ".")
    IN  IF Len(parts) = 1 /\ AllDigits(s)
        THEN [ok |-> TRUE, val |-> 100 * DigitsValue(s)]
        ELSE IF Len(parts) = 2 /\ AllDigits(parts[1]) /\ AllDigits(parts[2])
                /\ Len(parts[2]) <= 2
        THEN [ok |-> TRUE,
              val |-> 100 * DigitsValue(parts[1])
                      + (IF Len(parts[2]) = 1 THEN 10 ELSE 1) * DigitsValue(parts[2])]
        ELSE [ok |-> FALSE, val |-> 0]

\* float(x): exc is the exception raised ("" when none), val the value in
\* hundredths
Float(x) ==
    CASE x.t = "int" ->
            IF Len(x.v) > FloatMaxDigits THEN [exc |-> "OverflowError", val |-> 0]
            ELSE [exc |-> "", val |-> 100 * DigitsValue(x.v)]
      [] x.t = "str" ->
            IF DecimalValue(Strip(x.v)).ok
            THEN [exc |-> "", val |-> DecimalValue(Strip(x.v)).val]
            ELSE [exc |-> "ValueError", val |-> 0]
      [] OTHER -> [exc |-> "TypeError", val |-> 0]

\* except (ValueError, TypeError)
AmountCaught == {"ValueError", "TypeError"}

\* the digits of an integer part grouped by three with commas
RECURSIVE Grouped(_)
Grouped(digits) ==
    IF Len(digits) <= 3 THEN digits
    ELSE Grouped(SubSeq(digits, 1, Len(digits) - 3)) \o ","
         \o SubSeq(digits, Len(digits) - 2, Len(digits))

\* f"{total_amount:,.2f}".replace(",", " ") of a non-negative total
FormatTotal(hundredths) ==
    LET cents == hundredths % 100
    IN  Replace(Grouped(ToString(hundredths \div 100)) \o "."
                    \o (IF cents < 10 THEN "0" ELSE "") \o ToString(cents),
                ",", " ")

\* the four cells of an item's row
ItemCells(item) ==
    [item_name |-> StrOf(Get(item, "item_name", PyStr(""))),
     quantity |-> StrOf(Get(item, "quantity", PyInt("0"))),
     price |-> StrOf(Get(item, "price", PyInt("0"))),
     amount |-> StrOf(Get(item, "amount", PyInt("0")))]

RowText(cells) ==
    "<tr>" \o "<td>" \o cells.item_name \o "</td>" \o "<td>" \o cells.quantity
    \o "</td>" \o "<td>" \o cells.price \o "</td>" \o "<td>" \o cells.amount
    \o "</td>" \o "</tr>\n"

\* the loop over record["items"] from item i on: item.get on an element that
\* is no dict raises AttributeError
RECURSIVE ItemLoop(_, _, _, _, _)
ItemLoop(items, i, cells, item_rows, total_amount) ==
    IF i > Len(items)
    THEN [exc |-> "", cells |-> cells, item_rows |-> item_rows,
          total_amount |-> total_amount]
    ELSE IF items[i].t # "dict"
    THEN [exc |-> "AttributeError", cells |-> cells, item_rows |-> item_rows,
          total_amount |-> total_amount]
    ELSE LET f == Float(Get(items[i], "amount", PyInt("0")))
             row == ItemCells(items[i])
         IN  IF f.exc # "" /\ f.exc \notin AmountCaught
             THEN [exc |-> f.exc, cells |-> Append(cells, row),
                   item_rows |-> item_rows \o RowText(row),
                   total_amount |-> total_amount]
             ELSE ItemLoop(items, i + 1, Append(cells, row),
                           item_rows \o RowText(row),
                           IF f.exc = "" THEN total_amount + f.val ELSE total_amount)

\* generate_html(template_content, record): exc is the exception it raised,
\* content what it returned; cells, rows and total are the loop's results
GenerateHtml(template, rec) ==
    LET c1 == Replace(template, "{{ invoice_id }}",
                      StrOf(Get(rec, "invoice_id", PyStr(""))))
        c2 == Replace(c1, "{{ customer_name }}",
                      StrOf(Get(rec, "customer_name", PyStr(""))))
        c3 == Replace(c2, "{{ date }}", StrOf(Get(rec, "date", PyStr(""))))
        loop == ItemLoop(rec.items, 1, <<>>, "", 0)
        c4 == Replace(c3, "{{ item_rows }}", loop.item_rows)
        c5 == Replace(c4, "{{ total_amount }}", FormatTotal(loop.total_amount))
    IN  [exc |-> loop.exc,
         content |-> IF loop.exc = "" THEN c5 ELSE "",
         cells |-> loop.cells,
         rows |-> loop.item_rows,
         total |-> loop.total_amount]

(***************************************************************************)
(* select_item and main                                                    *)
(***************************************************************************)
\* one pass of select_item's prompt loop on a non-empty list: index is the
\* 1-based position chosen when the pass returns
SelectItemPass(items, line) ==
    LET n == ParseInt(line)
    IN  IF n.ok /\ 1 <= n.val /\ n.val <= Len(items)
        THEN [returns |-> TRUE, index |-> n.val]
        ELSE [returns |-> FALSE, index |-> 0]

\* IsFalsy testing for None only
IsNone(result) == result.value_t = "NoneType"

\* `not records`: None and the empty list are falsy
IsFalsy(result) == result.value_t = "NoneType" \/ result.value = <<>>

\* Path("temp") / f"{invoice_id}_{template_name}.html"
TempHtmlPath(rec, name) ==
    "temp/" \o StrOf(Get(rec, "invoice_id", PyStr("unknown"))) \o "_" \o name \o ".html"

\* Path("output") / f"({invoice_id})_{template_name}.pdf"
OutputPdfPath(rec, name) ==
    "output/(" \o StrOf(Get(rec, "invoice_id", PyStr("unknown"))) \o ")_" \o name
    \o ".pdf"

\* except IOError around temp_html_path.write_text
WriteCaught == {"OSError"}

\* the body of the export loop for one record; write_exc and pdf_exc are what
\* write_text and write_pdf raise ("" when they succeed).  raised is the
\* exception that leaves the loop, result what became of the record
ExportRecord(template, name, rec, write_exc, pdf_exc) ==
    LET made == GenerateHtml(template, rec)
    IN  IF made.exc # ""
        THEN [raised |-> made.exc, result |-> "html_raised", temp |-> <<>>, pdf |-> <<>>]
        ELSE IF write_exc # "" /\ write_exc \in WriteCaught
        THEN [raised |-> "", result |-> "write_failed", temp |-> <<>>, pdf |-> <<>>]
        ELSE IF write_exc # ""
        THEN [raised |-> write_exc, result |-> "write_raised", temp |-> <<>>, pdf |-> <<>>]
        ELSE IF pdf_exc # ""
        THEN [raised |-> "", result |-> "pdf_failed",
              temp |-> <<TempHtmlPath(rec, name)>>, pdf |-> <<>>]
        ELSE [raised |-> "", result |-> "generated",
              temp |-> <<TempHtmlPath(rec, name)>>, pdf |-> <<OutputPdfPath(rec, name)>>]

\* open_choice == 'y' after .lower()
SaysYes(line) == Lower(line) = "y"

(***************************************************************************)
(* Inputs of load_data.                                                    *)
(***************************************************************************)
CsvHeaders ==
    {<<"invoice_id", "item_name">>, <<"item_name", "invoice_id">>,
     <<"invoice_id", "customer_name", "amount">>, <<"customer_name", "item_name">>}
CsvTexts == {"A1", "B2"}
CsvFiles ==
    UNION {{CsvFile(h, raw) : raw \in SeqsUpTo(SeqsUpTo(CsvTexts, Len(h)), MaxRows)}
           : h \in CsvHeaders}

Pen == Item(PyStr("pen"), PyInt("10"))
Ink == Item(PyStr("ink"), Absent)
NestedArrays == {<<>>, <<Pen>>, <<Pen, Ink>>, <<NonDictItem>>}
JsonIds == {PyStr("A1"), PyStr("B2")}
JsonElems ==
    {JsonObject(id, Absent, PyStr("cap"), Absent, NoItems) : id \in JsonIds \cup {Absent}}
    \cup {JsonObject(id, Absent, PyStr("cap"), Absent, [t |-> "list", elems |-> a])
          : id \in JsonIds, a \in NestedArrays}
    \cup {JsonObject(PyStr("A1"), Absent, PyStr("cap"), Absent, [t |-> "str", elems |-> <<>>]),
          JsonObject(ListValue, Absent, PyStr("cap"), Absent, NoItems),
          JsonScalar("str")}
JsonFiles ==
    {JsonFile("list", data) : data \in SeqsUpTo(JsonElems, MaxRows)}
    \cup {JsonFile("dict", <<>>), JsonFile("dict", <<JsonScalar("str")>>),
          JsonFile("str", <<JsonScalar("str")>>), JsonFile("int", <<>>)}

\* files that cannot be opened, or whose reading or parsing fails
BrokenFiles ==
    {[CsvFile(<<"invoice_id", "item_name">>, <<>>) EXCEPT !.open_exc = "OSError"],
     [JsonFile("list", <<>>) EXCEPT !.open_exc = "OSError"]}
    \cup {[JsonFile("", <<>>) EXCEPT !.read_exc = e]
          : e \in {"JSONDecodeError", "UnicodeDecodeError"}}
    \cup UNION {{[CsvFile(<<"invoice_id", "item_name">>, raw)
                     EXCEPT !.read_exc = e, !.read_at = k]
                 : k \in 1..(Len(raw) + 1), e \in {"csv.Error", "UnicodeDecodeError"}}
                : raw \in SeqsUpTo({<<"A1", "B2">>}, MaxRows)}

DataFiles == CsvFiles \cup JsonFiles \cup BrokenFiles

(***************************************************************************)
(* Values of the variables a specification does not use.                   *)
(***************************************************************************)
NoFile == CsvFile(<<>>, <<>>)
NoRecord == [invoice_id |-> Absent, customer_name |-> Absent, date |-> Absent,
             items |-> <<>>]
NoHtml == [exc |-> "", content |-> "", cells |-> <<>>, rows |-> "", total |-> 0]
NoEnv == [data_files |-> <<>>, templates |-> <<>>]

LoadIdle ==
    /\ file_path = NoFile
    /\ loaded = NotLoaded
SelectIdle ==
    /\ accepted = ""
    /\ discarded = {}
HtmlIdle ==
    /\ record = NoRecord
    /\ html = NoHtml
MainIdle ==
    /\ env = NoEnv
    /\ template_name = ""
    /\ loop_i = 0
    /\ outcome = <<>>
    /\ temp_files = <<>>
    /\ generated_files = <<>>
    /\ trace = <<>>

(***************************************************************************)
(* SpecLoad: load_data applied to one data file.                           *)
(***************************************************************************)
InitLoad ==
    /\ pc = "load_data"
    /\ file_path \in DataFiles
    /\ loaded = NotLoaded
    /\ records = <<>>
    /\ selected_records = <<>>
    /\ template_content = ""
    /\ SelectIdle /\ HtmlIdle /\ MainIdle

LoadDataCall ==
    /\ pc = "load_data"
    /\ loaded' = LoadData(file_path)
    /\ pc' = "done"
    /\ UNCHANGED <<file_path, records, accepted, discarded, selected_records,
                   template_content, record, html, env, template_name, loop_i,
                   outcome, temp_files, generated_files, trace>>

NextLoad == LoadDataCall

SpecLoad == InitLoad /\ [][NextLoad]_vars

(***************************************************************************)
(* SpecSelect: select_records on a record list, one typed line per step.   *)
(***************************************************************************)
RECURSIVE Join(_, _)
Join(parts, sep) ==
    IF Len(parts) = 0 THEN ""
    ELSE IF Len(parts) = 1 THEN parts[1]
    ELSE parts[1] \o sep \o Join(Tail(parts), sep)

\* what the user may type for one token of a list
Tokens == {ToString(n) : n \in 0..(MaxRecords + 1)} \cup {" 2 ", "x", ""}

TypedLines ==
    {Join(q, ",") : q \in UNION {[1..k -> Tokens] : k \in 1..MaxTokens}}
    \cup {"all", "ALL", " All ", "al"}

\* the records load_data makes of n one-row invoices
RecordList(n) ==
    LoadData(CsvFile(<<"invoice_id", "item_name">>,
                     [i \in 1..n |-> <<"R" \o ToString(i), "pen">>])).value

InitSelect ==
    /\ pc = "select_records"
    /\ records \in {RecordList(n) : n \in 0..MaxRecords}
    /\ accepted = ""
    /\ discarded = {}
    /\ selected_records = <<>>
    /\ template_content = ""
    /\ LoadIdle /\ HtmlIdle /\ MainIdle

\* if not records: return []
SelectNothing ==
    /\ pc = "select_records"
    /\ records = <<>>
    /\ selected_records' = <<>>
    /\ pc' = "done"
    /\ UNCHANGED <<file_path, loaded, records, accepted, discarded, template_content,
                   record, html, env, template_name, loop_i, outcome, temp_files,
                   generated_files, trace>>

\* one pass of the prompt loop that returns
SelectReturn(line) ==
    /\ pc = "select_records"
    /\ records # <<>>
    /\ SelectPass(records, line).returns
    /\ accepted' = line
    /\ selected_records' = SelectPass(records, line).value
    /\ pc' = "done"
    /\ UNCHANGED <<file_path, loaded, records, discarded, template_content, record,
                   html, env, template_name, loop_i, outcome, temp_files,
                   generated_files, trace>>

\* one pass of the prompt loop that goes back to the prompt
SelectAgain(line) ==
    /\ pc = "select_records"
    /\ records # <<>>
    /\ ~SelectPass(records, line).returns
    /\ discarded' = discarded \cup SelectPass(records, line).valid
    /\ UNCHANGED <<pc, file_path, loaded, records, accepted, selected_records,
                   template_content, record, html, env, template_name, loop_i,
                   outcome, temp_files, generated_files, trace>>

NextSelect ==
    \/ SelectNothing
    \/ \E line \in TypedLines : SelectReturn(line)
    \/ \E line \in TypedLines : SelectAgain(line)

SpecSelect == InitSelect /\ [][NextSelect]_vars

(***************************************************************************)
(* SpecHtml: generate_html on a template and a record load_data produced.  *)
(***************************************************************************)
RECURSIVE Zeros(_)
Zeros(n) ==
    IF n = 0 THEN ""
    ELSE IF n % 2 = 0 THEN Zeros(n \div 2) \o Zeros(n \div 2)
    ELSE "0" \o Zeros(n - 1)

\* a JSON integer too large for a float
HugeInt == PyInt("1" \o Zeros(FloatMaxDigits + 1))

HtmlAmounts ==
    {PyStr("10"), PyStr("x"), PyStr("234.5"), PyInt("1000"), None, ListValue,
     HugeInt}
HtmlItems ==
    {Item(PyStr("pen"), a) : a \in HtmlAmounts}
    \cup {Item(Absent, Absent), NonDictItem}
HtmlTexts == {PyStr("A1"), PyStr("{{ date }}")}

HtmlFiles ==
    {JsonFile("list", <<JsonObject(id, c, Absent, Absent,
                                   [t |-> "list", elems |-> a])>>)
        : id \in HtmlTexts, c \in {Absent, PyStr("{{ total_amount }}")},
          a \in SeqsUpTo(HtmlItems, MaxItems)}
    \cup {JsonFile("list", <<JsonObject(PyStr("A1"), PyStr("Bob"), n, a, NoItems)>>)
        : n \in {Absent, PyStr("pen")}, a \in {Absent, None, PyStr("10")}}
    \cup {CsvFile(h, <<row>>)
        : h \in {<<"invoice_id", "amount">>, <<"invoice_id", "item_name", "quantity">>},
          row \in {<<"A1">>, <<"A1", "10">>, <<"A1", "10", "2">>}}

TemplateChunks ==
    {"{{ invoice_id }}", "{{ customer_name }}", "{{ date }}", "{{ item_rows }}",
     "{{ total_amount }}", "{{ note }}", "<p>", "{{ ", "date }}"}
Templates ==
    {Join(q, "") : q \in UNION {[1..k -> TemplateChunks] : k \in 1..MaxParts}}

InitHtml ==
    /\ pc = "load_data"
    /\ file_path \in HtmlFiles
    /\ template_content \in Templates
    /\ loaded = NotLoaded
    /\ records = <<>>
    /\ selected_records = <<>>
    /\ SelectIdle /\ HtmlIdle /\ MainIdle

\* the record to render is one of those load_data returns for the file
LoadRecord(i) ==
    /\ pc = "load_data"
    /\ loaded' = LoadData(file_path)
    /\ i \in 1..Len(loaded'.value)
    /\ record' = loaded'.value[i]
    /\ pc' = "generate_html"
    /\ UNCHANGED <<file_path, records, accepted, discarded, selected_records,
                   template_content, html, env, template_name, loop_i, outcome,
                   temp_files, generated_files, trace>>

GenerateHtmlCall ==
    /\ pc = "generate_html"
    /\ html' = GenerateHtml(template_content, record)
    /\ pc' = "done"
    /\ UNCHANGED <<file_path, loaded, records, accepted, discarded,
                   selected_records, template_content, record, env, template_name,
                   loop_i, outcome, temp_files, generated_files, trace>>

NextHtml ==
    \/ \E i \in 1..MaxRecords : LoadRecord(i)
    \/ GenerateHtmlCall

SpecHtml == InitHtml /\ [][NextHtml]_vars

(***************************************************************************)
(* Spec: one run of main().  env holds what find_files returns; the user's *)
(* lines and the failures of write_text and write_pdf are chosen freely.   *)
(***************************************************************************)
TemplateFile(stem, content, read_exc) ==
    [stem |-> stem, content |-> content, read_exc |-> read_exc]

MainDataFiles ==
    <<CsvFile(<<"invoice_id", "item_name", "amount">>,
              <<<<"R1", "pen", "10">>, <<"R2", "ink", "x">>, <<"R3", "cap", "5">>,
                <<"R1", "pad", "1">>>>),
      JsonFile("list",
               <<JsonObject(PyInt("1"), PyStr("Ann"), PyStr("pen"), PyInt("10"), NoItems),
                 JsonObject(PyStr("1"), PyStr("Bob"), PyStr("ink"), PyInt("5"), NoItems)>>),
      JsonFile("list",
               <<JsonObject(PyStr("A1"), Absent, Absent, Absent,
                            [t |-> "list", elems |-> <<Pen>>]),
                 JsonObject(PyStr("B2"), Absent, Absent, Absent,
                            [t |-> "list", elems |-> <<NonDictItem>>]),
                 JsonObject(PyStr("C3"), Absent, Absent, Absent,
                            [t |-> "list", elems |-> <<Pen, Ink>>])>>),
      CsvFile(<<"invoice_id", "item_name">>, <<>>),
      JsonFile("list", <<JsonObject(Absent, Absent, PyStr("pen"), Absent, NoItems)>>),
      JsonFile("dict", <<JsonScalar("str")>>)>>

MainTemplates ==
    <<TemplateFile("invoice", "<h1>{{ invoice_id }}</h1>{{ item_rows }}{{ total_amount }}", ""),
      TemplateFile("receipt", "", "OSError"),
      TemplateFile("latin1", "", "UnicodeDecodeError")>>

MainEnvs ==
    {[data_files |-> d, templates |-> t]
        : d \in {<<>>, MainDataFiles}, t \in {<<>>, MainTemplates}}

ItemLines(items) == {ToString(n) : n \in 0..(Len(items) + 1)} \cup {"x", ""}
RecordLines == {"all", "1", "2", "2,1", "1,3", "3,2,3", "4", "1,9", "x", ""}
WriteFailures == {"", "OSError"}
PdfFailures == {"", "Exception"}
OpenAnswers == {"y", "Y", "n", ""}

Init ==
    /\ pc = "select_data"
    /\ env \in MainEnvs
    /\ records = <<>>
    /\ selected_records = <<>>
    /\ template_content = ""
    /\ template_name = ""
    /\ loop_i = 0
    /\ outcome = <<>>
    /\ temp_files = <<>>
    /\ generated_files = <<>>
    /\ trace = <<>>
    /\ LoadIdle /\ SelectIdle /\ HtmlIdle

\* select_item on an empty list returns None without prompting: main returns
NoDataFiles ==
    /\ pc = "select_data"
    /\ env.data_files = <<>>
    /\ trace' = Append(trace, "data_file:none")
    /\ pc' = "done"
    /\ UNCHANGED <<file_path, loaded, records, accepted, discarded, selected_records,
                   template_content, record, html, env, template_name, loop_i,
                   outcome, temp_files, generated_files>>

\* a line select_item refuses: the prompt is shown again
SelectItemAgain(line) ==
    /\ \/ pc = "select_data" /\ env.data_files # <<>>
             /\ ~SelectItemPass(env.data_files, line).returns
       \/ pc = "select_template" /\ env.templates # <<>>
             /\ ~SelectItemPass(env.templates, line).returns
    /\ UNCHANGED vars

\* the data file is chosen and load_data is called on it
SelectData(line) ==
    /\ pc = "select_data"
    /\ env.data_files # <<>>
    /\ SelectItemPass(env.data_files, line).returns
    /\ file_path' = env.data_files[SelectItemPass(env.data_files, line).index]
    /\ loaded' = LoadData(file_path')
    /\ IF loaded'.raised # ""
       THEN /\ pc' = "crashed"
            /\ trace' = trace \o <<"data_file:selected", "load_data:raised">>
            /\ UNCHANGED records
       ELSE IF IsFalsy(loaded')
       THEN /\ pc' = "done"
            /\ trace' = trace \o <<"data_file:selected",
                                   IF loaded'.value_t = "list" /\ loaded'.value # <<>>
                                   THEN "load_data:ok" ELSE "load_data:empty">>
            /\ UNCHANGED records
       ELSE /\ pc' = "select_template"
            /\ trace' = trace \o <<"data_file:selected",
                                   IF loaded'.value_t = "list" /\ loaded'.value # <<>>
                                   THEN "load_data:ok" ELSE "load_data:empty">>
            /\ records' = loaded'.value
    /\ UNCHANGED <<accepted, discarded, selected_records, template_content, record,
                   html, env, template_name, loop_i, outcome, temp_files,
                   generated_files>>

NoTemplates ==
    /\ pc = "select_template"
    /\ env.templates = <<>>
    /\ trace' = Append(trace, "template:none")
    /\ pc' = "done"
    /\ UNCHANGED <<file_path, loaded, records, accepted, discarded, selected_records,
                   template_content, record, html, env, template_name, loop_i,
                   outcome, temp_files, generated_files>>

\* the template is chosen and read; except IOError: return
SelectTemplate(line) ==
    /\ pc = "select_template"
    /\ env.templates # <<>>
    /\ SelectItemPass(env.templates, line).returns
    /\ LET t == env.templates[SelectItemPass(env.templates, line).index]
       IN  IF t.read_exc = ""
           THEN /\ template_content' = t.content
                /\ template_name' = t.stem
                /\ trace' = trace \o <<"template:selected", "read_text:ok">>
                /\ pc' = "select_records"
           ELSE /\ UNCHANGED <<template_content, template_name>>
                /\ trace' = trace \o <<"template:selected", "read_text:failed">>
                /\ pc' = IF t.read_exc = "OSError" THEN "done" ELSE "crashed"
    /\ UNCHANGED <<file_path, loaded, records, accepted, discarded, selected_records,
                   record, html, env, loop_i, outcome, temp_files, generated_files>>

\* a line select_records refuses
SelectRecordsAgain(line) ==
    /\ pc = "select_records"
    /\ records # <<>>
    /\ ~SelectPass(records, line).returns
    /\ discarded' = discarded \cup SelectPass(records, line).valid
    /\ UNCHANGED <<pc, file_path, loaded, records, accepted, selected_records,
                   template_content, record, html, env, template_name, loop_i,
                   outcome, temp_files, generated_files, trace>>

\* select_records returns; `if not selected_records: return`
SelectRecords(line) ==
    /\ pc = "select_records"
    /\ records # <<>>
    /\ SelectPass(records, line).returns
    /\ accepted' = line
    /\ selected_records' = SelectPass(records, line).value
    /\ IF selected_records' = <<>>
       THEN pc' = "done" /\ trace' = Append(trace, "select_records:empty")
       ELSE pc' = "export" /\ trace' = Append(trace, "select_records:ok")
    /\ loop_i' = 1
    /\ UNCHANGED <<file_path, loaded, records, discarded, template_content, record,
                   html, env, template_name, outcome, temp_files, generated_files>>

\* one turn of the export loop, and what follows the loop after its last turn
Export(write_exc, pdf_exc) ==
    /\ pc = "export"
    /\ loop_i <= Len(selected_records)
    /\ LET r == ExportRecord(template_content, template_name,
                             selected_records[loop_i], write_exc, pdf_exc)
       IN  /\ outcome' = Append(outcome, r.result)
           /\ temp_files' = temp_files \o r.temp
           /\ generated_files' = generated_files \o r.pdf
           /\ trace' = trace \o (IF r.temp # <<>> THEN <<"temp_html">> ELSE <<>>)
                             \o (IF r.pdf # <<>> THEN <<"pdf">> ELSE <<>>)
           /\ loop_i' = loop_i + 1
           /\ pc' = IF r.raised # "" THEN "crashed"
                    ELSE IF loop_i < Len(selected_records) THEN "export"
                    ELSE IF generated_files' # <<>> THEN "open_prompt"
                    ELSE "done"
    /\ UNCHANGED <<file_path, loaded, records, accepted, discarded, selected_records,
                   template_content, record, html, env, template_name>>

\* the final prompt; open_file reports its own failures
OpenPrompt(line) ==
    /\ pc = "open_prompt"
    /\ trace' = trace \o (IF SaysYes(line) THEN <<"open_prompt", "open_file">>
                          ELSE <<"open_prompt">>)
    /\ pc' = "done"
    /\ UNCHANGED <<file_path, loaded, records, accepted, discarded, selected_records,
                   template_content, record, html, env, template_name, loop_i,
                   outcome, temp_files, generated_files>>

Next ==
    \/ NoDataFiles
    \/ \E line \in ItemLines(env.data_files) \cup ItemLines(env.templates) :
           SelectItemAgain(line)
    \/ \E line \in ItemLines(env.data_files) : SelectData(line)
    \/ NoTemplates
    \/ \E line \in ItemLines(env.templates) : SelectTemplate(line)
    \/ \E line \in RecordLines : SelectRecordsAgain(line)
    \/ \E line \in RecordLines : SelectRecords(line)
    \/ \E w \in WriteFailures, p \in PdfFailures : Export(w, p)
    \/ \E line \in OpenAnswers : OpenPrompt(line)

Spec == Init /\ [][Next]_vars

(***************************************************************************)
(* Claims on load_data (checked under SpecLoad).                           *)
(***************************************************************************)
LoadedList == pc = "done" /\ loaded.value_t = "list"

\* the rows the loop visits: the CSV reader skips blank rows
LoopRows(file) ==
    IF file.suffix = ".csv"
    THEN LET filled == SelectSeq(file.raw, LAMBDA r : r # <<>>)
         IN  [i \in 1..Len(filled) |-> DictReader(file.header, filled[i])]
    ELSE file.data

RowsWith(rows, id) == {k \in 1..Len(rows) : rows[k]["invoice_id"] = id}

\* the line items one source row supplies
RowItems(file, row) ==
    IF file.suffix = ".csv" THEN <<CsvItem(row)>>
    ELSE IF row.items.t = "list" THEN row.items.elems
    ELSE <<JsonItem(row)>>

\* the items supplied by the rows 1..k that carry id, in source order
RECURSIVE ItemsOf(_, _, _, _)
ItemsOf(file, rows, id, k) ==
    IF k = 0 THEN <<>>
    ELSE ItemsOf(file, rows, id, k - 1)
         \o (IF rows[k]["invoice_id"] = id THEN RowItems(file, rows[k]) ELSE <<>>)

\* C2 (as amended): a successful load holds exactly one record per distinct
\* invoice_id, and each record's items is the concatenation, in source order,
\* of what the rows with that id supply: one item per CSV row or flat JSON
\* object (so N such rows give N items), the nested array's elements for a
\* JSON object that carries one.
C2_GroupedInSourceOrder ==
    LoadedList =>
        LET rows == LoopRows(file_path)
            v == loaded.value
        IN  /\ \A i, j \in 1..Len(v) : i # j => v[i].invoice_id # v[j].invoice_id
            /\ {v[i].invoice_id : i \in 1..Len(v)}
                   = {rows[k]["invoice_id"] : k \in 1..Len(rows)}
            /\ \A i \in 1..Len(v) :
                   /\ v[i].items = ItemsOf(file_path, rows, v[i].invoice_id, Len(rows))
                   /\ (\A k \in RowsWith(rows, v[i].invoice_id) :
                           Len(RowItems(file_path, rows[k])) = 1)
                      => Len(v[i].items) = Cardinality(RowsWith(rows, v[i].invoice_id))

\* C2 (as stated): for every input, the record of an invoice_id that appears
\* on N rows/objects has exactly N items.
C2_ItemsLengthIsRowCount ==
    LoadedList =>
        \A i \in 1..Len(loaded.value) :
            Len(loaded.value[i].items)
                = Cardinality(RowsWith(LoopRows(file_path), loaded.value[i].invoice_id))

\* C2 witness: two ids interleaved, one of them on two rows
C2_Witness ==
    /\ LoadedList
    /\ Len(loaded.value) = 2
    /\ LET rows == LoopRows(file_path)
       IN  /\ Len(rows) = 3
           /\ rows[1]["invoice_id"] = rows[3]["invoice_id"]
           /\ rows[1]["invoice_id"] # rows[2]["invoice_id"]
           /\ Len(loaded.value[1].items) = 2

\* C6 (as amended): the elements of a nested items array are appended
\* verbatim to the record of its invoice_id, after what earlier objects with
\* that id supplied; the record's items equals the array when the object is
\* the only one with its id, and the object's top-level item fields add
\* nothing.
C6_NestedItemsAppendedVerbatim ==
    (LoadedList /\ file_path.suffix = ".json") =>
        LET data == file_path.data
            v == loaded.value
        IN  \A k \in 1..Len(data) :
                data[k].items.t = "list" =>
                    LET id == data[k].invoice_id
                        rec == v[IndexOf(v, id)]
                        elems == data[k].items.elems
                        before == ItemsOf(file_path, data, id, k - 1)
                    IN  /\ IndexOf(v, id) # 0
                        /\ SubSeq(rec.items, Len(before) + 1, Len(before) + Len(elems))
                               = elems
                        /\ Len(rec.items) = Len(ItemsOf(file_path, data, id, Len(data)))
                        /\ RowsWith(data, id) = {k} => rec.items = elems

\* C6 (as stated): a record loaded from an object with a nested items array
\* has items equal to that array.
C6_ItemsEqualNestedArray ==
    (LoadedList /\ file_path.suffix = ".json") =>
        \A k \in 1..Len(file_path.data) :
            file_path.data[k].items.t = "list" =>
                loaded.value[IndexOf(loaded.value, file_path.data[k].invoice_id)].items
                    = file_path.data[k].items.elems

\* C6 witness: a nested array of two elements loaded after a flat object of
\* the same invoice_id
C6_Witness ==
    /\ LoadedList /\ file_path.suffix = ".json"
    /\ Len(file_path.data) = 2
    /\ file_path.data[1].items.t = "absent"
    /\ file_path.data[2].items = [t |-> "list", elems |-> <<Pen, Ink>>]
    /\ file_path.data[1].invoice_id = file_path.data[2].invoice_id
    /\ Len(loaded.value) = 1 /\ Len(loaded.value[1].items) = 3

\* C3 (as stated): when reading or parsing fails at any point, load_data
\* reports the error and returns an empty result; nothing is raised to the
\* caller and no partial record list is returned.
C3_FailureYieldsEmptyResult ==
    (pc = "done" /\ loaded.exc # "") =>
        /\ loaded.raised = ""
        /\ loaded.reported
        /\ loaded.value_t = "NoneType"
        /\ loaded.value = <<>>

(***************************************************************************)
(* Claims on select_records (checked under SpecSelect).                    *)
(***************************************************************************)
IsAllWord(line) == Lower(Strip(line)) = "all"

\* the numbers of a comma-separated line
ListedNumbers(line) ==
    LET parts == Split(Lower(Strip(line)), ",")
    IN  [i \in 1..Len(parts) |-> ParseInt(parts[i])]

IsNumberList(line) ==
    Strip(line) # "" /\ \A i \in 1..Len(ListedNumbers(line)) : ListedNumbers(line)[i].ok

\* the records at the positions of S among the first k, in their original order
RECURSIVE RecordsAt(_, _, _)
RecordsAt(recs, S, k) ==
    IF k = 0 THEN <<>>
    ELSE RecordsAt(recs, S, k - 1) \o (IF k \in S THEN <<recs[k]>> ELSE <<>>)

\* C4: on a non-empty list select_records selects nothing before it returns;
\* it returns only on 'all' (any case), with every record, or on a list of
\* numbers that all lie in [1, N], with exactly the records at the distinct
\* listed positions in ascending original order; what a refused line listed
\* has no part in the result.
C4_SelectReturnsListedRecords ==
    records # <<>> =>
        /\ pc = "select_records" => selected_records = <<>>
        /\ pc = "done" =>
               \/ IsAllWord(accepted) /\ selected_records = records
               \/ /\ ~IsAllWord(accepted)
                  /\ IsNumberList(accepted)
                  /\ LET numbers == {ListedNumbers(accepted)[i].val
                                        : i \in 1..Len(ListedNumbers(accepted))}
                     IN  /\ numbers \subseteq 1..Len(records)
                         /\ selected_records = RecordsAt(records, numbers, Len(records))

\* C4 witness: '2,2,1' on three records returns records 1 and 2 after a line
\* that listed record 3 beside an out-of-range number was refused
C4_Witness ==
    /\ pc = "done"
    /\ Len(records) = 3
    /\ accepted = "2,2,1"
    /\ selected_records = <<records[1], records[2]>>
    /\ 2 \in discarded

(***************************************************************************)
(* Claims on generate_html (checked under SpecHtml).                       *)
(***************************************************************************)
Placeholders ==
    <<"{{ invoice_id }}", "{{ customer_name }}", "{{ date }}", "{{ item_rows }}",
      "{{ total_amount }}">>

\* template with every placeholder occurrence replaced by its value, the
\* rest unchanged
RECURSIVE Substituted(_, _)
Substituted(template, values) ==
    IF template = "" THEN ""
    ELSE IF \E p \in 1..Len(Placeholders) : StartsWith(template, Placeholders[p])
    THEN LET p == CHOOSE q \in 1..Len(Placeholders) :
                      StartsWith(template, Placeholders[q])
         IN  values[p]
             \o Substituted(SubSeq(template, Len(Placeholders[p]) + 1, Len(template)),
                            values)
    ELSE Head(template) \o Substituted(Tail(template), values)

\* C5 (as stated): the result is the template with each occurrence of the five
\* placeholders replaced by the record's value for it and every other part of
\* the template unchanged, whatever the values are.
C5_ResultIsTemplateSubstituted ==
    (pc = "done" /\ html.exc = "") =>
        html.content
            = Substituted(template_content,
                          <<StrOf(record.invoice_id), StrOf(record.customer_name),
                            StrOf(record.date), html.rows, FormatTotal(html.total)>>)

\* the sum, in hundredths, of the amounts among the first k items that coerce
RECURSIVE SumOfCoercible(_, _)
SumOfCoercible(items, k) ==
    IF k = 0 THEN 0
    ELSE SumOfCoercible(items, k - 1)
         + (IF Float(Get(items[k], "amount", PyInt("0"))).exc = ""
            THEN Float(Get(items[k], "amount", PyInt("0"))).val ELSE 0)

\* C7 (as stated): for every record (of dict items) generate_html does not
\* raise whatever the amounts are, and the total is the sum of the amounts
\* that coerce to a number.
C7_TotalSkipsUncoercibleAmounts ==
    (pc = "done" /\ \A i \in 1..Len(record.items) : record.items[i].t = "dict") =>
        /\ html.exc = ""
        /\ html.total = SumOfCoercible(record.items, Len(record.items))

ItemFields == {"item_name", "quantity", "price", "amount"}

\* per line item a source row gives rise to, the fields the source supplied
RowSupplied(file, row) ==
    IF file.suffix = ".csv" THEN <<{f \in ItemFields : row[f].t = "str"}>>
    ELSE IF row.items.t = "list"
    THEN [j \in 1..Len(row.items.elems) |->
             {f \in ItemFields : row.items.elems[j].t = "dict"
                                 /\ row.items.elems[j][f] # Absent}]
    ELSE <<{f \in ItemFields : row[f] # Absent}>>

RECURSIVE SuppliedOf(_, _, _, _)
SuppliedOf(file, rows, id, k) ==
    IF k = 0 THEN <<>>
    ELSE SuppliedOf(file, rows, id, k - 1)
         \o (IF rows[k]["invoice_id"] = id THEN RowSupplied(file, rows[k]) ELSE <<>>)

RECURSIVE RowsText(_, _)
RowsText(cells, k) ==
    IF k = 0 THEN "" ELSE RowsText(cells, k - 1) \o RowText(cells[k])

\* C8 (as stated): for a record load_data produced, generate_html emits one
\* four-column row per item in item order, and a field the source did not
\* supply is rendered as empty text (item_name) or as a number (quantity,
\* price, amount), not as a null marker.
C8_UnsuppliedFieldsRenderAsDefaults ==
    (pc = "done" /\ html.exc = "") =>
        LET rows == LoopRows(file_path)
            supplied == SuppliedOf(file_path, rows, record.invoice_id, Len(rows))
        IN  /\ Len(html.cells) = Len(record.items)
            /\ html.rows = RowsText(html.cells, Len(html.cells))
            /\ \A i \in 1..Len(html.cells) :
                   \A f \in ItemFields \ supplied[i] :
                       IF f = "item_name" THEN html.cells[i][f] = ""
                       ELSE AllDigits(html.cells[i][f])

(***************************************************************************)
(* Claims on main (checked under Spec).                                    *)
(***************************************************************************)
RunEnded == pc \in {"done", "crashed"}

\* the PDF paths of the first k selected records that were generated
RECURSIVE GeneratedOf(_)
GeneratedOf(k) ==
    IF k = 0 THEN <<>>
    ELSE GeneratedOf(k - 1)
         \o (IF outcome[k] = "generated"
             THEN <<OutputPdfPath(selected_records[k], template_name)>> ELSE <<>>)

\* C1 (as stated): whichever records fail, while rendering the HTML, writing
\* the transient HTML or rendering the PDF, the loop goes on to every later
\* record, and at the end the generated files are exactly the outputs of the
\* records that did not fail, in selection order.
C1_FailureNeverStopsLoop ==
    (RunEnded /\ selected_records # <<>>) =>
        /\ Len(outcome) = Len(selected_records)
        /\ generated_files = GeneratedOf(Len(outcome))

StepOrder ==
    <<"data_file:selected", "load_data:ok", "template:selected", "read_text:ok",
      "select_records:ok">>
StepFailures ==
    {"data_file:none", "load_data:empty", "load_data:raised", "template:none",
     "read_text:failed", "select_records:empty"}
AfterSteps == {"temp_html", "pdf", "open_prompt", "open_file"}

\* C9: a transient HTML file or a PDF is written (and the open prompt shown)
\* only after a data file was selected, load_data returned a non-empty list,
\* a template was selected and read, and select_records returned a non-empty
\* selection, in this order; a step that fails is the last step of the run,
\* which ends there with no file written and open_file not invoked.
C9_FilesOnlyAfterAllSteps ==
    /\ (temp_files # <<>> \/ generated_files # <<>>
        \/ \E k \in 1..Len(trace) : trace[k] \in AfterSteps)
       => /\ Len(trace) >= Len(StepOrder)
          /\ SubSeq(trace, 1, Len(StepOrder)) = StepOrder
          /\ loaded.value_t = "list" /\ records = loaded.value /\ records # <<>>
          /\ selected_records # <<>>
    /\ \A k \in 1..Len(trace) :
           /\ k <= Len(StepOrder) /\ trace[k] \notin StepFailures
              => trace[k] = StepOrder[k]
           /\ k > Len(StepOrder) => trace[k] \in AfterSteps
           /\ trace[k] \in StepFailures
              => /\ k = Len(trace)
                 /\ RunEnded
                 /\ temp_files = <<>> /\ generated_files = <<>>

\* C9 witness: a run that wrote two PDFs and opened the first
C9_Witness ==
    /\ pc = "done"
    /\ Len(generated_files) = 2
    /\ trace[Len(trace)] = "open_file"

\* C10 (as stated): the output PDF paths of the selected records are pairwise
\* distinct, and so are the generated files.
C10_OutputPathsDistinct ==
    /\ \A i, j \in 1..Len(selected_records) :
           i # j => OutputPdfPath(selected_records[i], template_name)
                        # OutputPdfPath(selected_records[j], template_name)
    /\ \A i, j \in 1..Len(generated_files) :
           i # j => generated_files[i] # generated_files[j]

====
